---- MODULE Spec2Model ----
(***************************************************************************)
(* Menudo: bar-driven futures backtester.                                  *)
(* Model of the order-matching engine (engine/execution.rs), the position  *)
(* and account ledger (portfolio/position.rs, portfolio/account.rs), the   *)
(* strategy context (strategy/mod.rs) and the backtest driver              *)
(* (engine/backtest.rs).                                                   *)
(*                                                                         *)
(* f64 values are modelled as exact rationals <<num, den>> (den > 0,       *)
(* lowest terms); Option<T> is modelled as <<>> (None) or <<v>> (Some(v)). *)
(***************************************************************************)
EXTENDS Integers, Sequences, FiniteSets, TLC

\* ------------------------------------------------------------------------
\* Bounds of the model
\* ------------------------------------------------------------------------
\* bars of one run, calls a strategy makes on its context in one run
MaxBars == 3

MaxStratCalls == 2

\* calls on an engine driven directly, orders pending on it at once
MaxCalls == 3

MaxPending == 2

\* ------------------------------------------------------------------------
\* Rational arithmetic standing for f64
\* ------------------------------------------------------------------------
Abs(x) == IF x < 0 THEN -x ELSE x

RECURSIVE Gcd(_, _)
Gcd(a, b) == IF b = 0 THEN a ELSE Gcd(b, a % b)

RNorm(n, d) ==
    LET g == Gcd(Abs(n), Abs(d))
        s == IF d < 0 THEN -1 ELSE 1
    IN  IF n = 0 THEN <<0, 1>> ELSE <<(s * n) \div g, (s * d) \div g>>

R(n) == <<n, 1>>

RAdd(a, b) == RNorm(a[1] * b[2] + b[1] * a[2], a[2] * b[2])

RSub(a, b) == RNorm(a[1] * b[2] - b[1] * a[2], a[2] * b[2])

RMul(a, b) == RNorm(a[1] * b[1], a[2] * b[2])

RDiv(a, b) == RNorm(a[1] * b[2], a[2] * b[1])

RLt(a, b) == a[1] * b[2] < b[1] * a[2]

RLe(a, b) == a[1] * b[2] <= b[1] * a[2]

\* ------------------------------------------------------------------------
\* Inputs
\* ------------------------------------------------------------------------
Prices == {R(100), R(105)}

\* bar opens handed to process_orders by a direct caller: off the price grid
Opens == {R(102)}

Qtys == {1}

\* ids a caller gives to the orders it builds itself
CallerIds == {1, 2}

Sides == {"Buy", "Sell"}

OrderTypes == {"Market", "Limit", "Stop"}

None == <<>>

Some(v) == <<v>>

\* the symbol of the contract under test
ContractSymbol == "ES"

\* wall-clock value of Utc::now() at context construction: later than any bar
NowValues == {1000}

VARIABLES
    \* ExecutionEngine (engine/execution.rs)
    next_order_id, next_fill_id, pending_orders,
    \* Account (portfolio/account.rs)
    initial_balance, cash, equity, margin_used, open_positions, trade_log,
    \* StrategyContext (strategy/mod.rs)
    bar_history, current_time, max_history,
    \* BacktestEngine (engine/backtest.rs): bars, position in run(), loop index,
    \* equity snapshots, the BacktestResult run() returned (None before), and
    \* the steps of run() completed so far, in order
    bars, pc, i, equity_history, result, trace,
    \* observation of the calls: the last operation on the engine, its return
    \* value, the fills returned by the last process_orders and its arguments,
    \* the pending orders the last operation started from, where in run() each
    \* logged fill was resolved, where each order was submitted (by order id),
    \* the ids market_order/limit_order returned (0 marks a new engine), the
    \* number of calls the engine's client has made, and the ids of the fills
    \* the engine instance has emitted so far, in the order of emission
    op, ret, fills, call, before, resolved, submitted, issued, calls, emitted

engine_vars == <<next_order_id, next_fill_id, pending_orders>>

account_vars ==
    <<initial_balance, cash, equity, margin_used, open_positions, trade_log>>

context_vars == <<bar_history, current_time, max_history>>

driver_vars == <<bars, pc, i, equity_history, result, trace>>

obs_vars ==
    <<op, ret, fills, call, before, resolved, submitted, issued, calls, emitted>>

vars == <<engine_vars, account_vars, context_vars, driver_vars, obs_vars>>

\* ------------------------------------------------------------------------
\* engine/execution.rs: orders and fills
\* ------------------------------------------------------------------------
to_qty_sign(side) == IF side = "Buy" THEN 1 ELSE -1

OrderMarket(id, timestamp, symbol, qty, side) ==
    [id |-> id, timestamp |-> timestamp, symbol |-> symbol, qty |-> qty,
     side |-> side, order_type |-> "Market",
     limit_price |-> None, stop_price |-> None]

OrderLimit(id, timestamp, symbol, qty, side, limit_price) ==
    [id |-> id, timestamp |-> timestamp, symbol |-> symbol, qty |-> qty,
     side |-> side, order_type |-> "Limit",
     limit_price |-> Some(limit_price), stop_price |-> None]

OrderStop(id, timestamp, symbol, qty, side, stop_price) ==
    [id |-> id, timestamp |-> timestamp, symbol |-> symbol, qty |-> qty,
     side |-> side, order_type |-> "Stop",
     limit_price |-> None, stop_price |-> Some(stop_price)]

signed_qty(order) == order.qty * to_qty_sign(order.side)

FillFromOrder_Epoch(fill_id, order, fill_price, fees) ==
    [id |-> fill_id, order_id |-> order.id, timestamp |-> 0,
     symbol |-> order.symbol, qty |-> signed_qty(order), side |-> order.side,
     fill_price |-> fill_price, fees |-> fees]

FillFromOrder(fill_id, order, fill_price, fees) ==
    [id |-> fill_id, order_id |-> order.id, timestamp |-> order.timestamp,
     symbol |-> order.symbol, qty |-> signed_qty(order), side |-> order.side,
     fill_price |-> fill_price, fees |-> fees]

\* ------------------------------------------------------------------------
\* engine/execution.rs: ExecutionEngine
\* ------------------------------------------------------------------------
FirstId == 1

submit_order(pending, order) == Append(pending, order)

NextOrderId_Stuck(id) == id

NextOrderId(id) == id + 1

NextFillId_Stuck(id) == id

NextFillId(id) == id + 1

LimitFilled_Swapped(side, limit_price, bar_high, bar_low) ==
    IF side = "Buy" THEN RLe(limit_price, bar_high)
                    ELSE RLe(bar_low, limit_price)

\* limit buy fills if low <= limit_price, limit sell if high >= limit_price
LimitFilled(side, limit_price, bar_high, bar_low) ==
    IF side = "Buy" THEN RLe(bar_low, limit_price)
                    ELSE RLe(limit_price, bar_high)

StopTriggered_Swapped(side, stop_price, bar_high, bar_low) ==
    IF side = "Buy" THEN RLe(bar_low, stop_price)
                    ELSE RLe(stop_price, bar_high)

\* stop buy triggers if high >= stop_price, stop sell if low <= stop_price
StopTriggered(side, stop_price, bar_high, bar_low) ==
    IF side = "Buy" THEN RLe(stop_price, bar_high)
                    ELSE RLe(bar_low, stop_price)

EmitFill_Prepended(acc, order, fill_price) ==
    [fills |-> <<FillFromOrder(acc.next_fill_id, order, fill_price, R(0))>>
               \o acc.fills,
     keep |-> acc.keep,
     next_fill_id |-> NextFillId(acc.next_fill_id)]

EmitFill(acc, order, fill_price) ==
    [fills |-> Append(acc.fills,
                      FillFromOrder(acc.next_fill_id, order, fill_price, R(0))),
     keep |-> acc.keep,
     next_fill_id |-> NextFillId(acc.next_fill_id)]

KeepOrder_Dropped(acc, order) == acc

KeepOrder(acc, order) ==
    [fills |-> acc.fills,
     keep |-> Append(acc.keep, order),
     next_fill_id |-> acc.next_fill_id]

ProcessOne_FillAll(acc, order, bar_open, bar_high, bar_low) ==
    EmitFill(acc, order, bar_open)

\* one iteration of the drain loop of process_orders
ProcessOne(acc, order, bar_open, bar_high, bar_low) ==
    CASE order.order_type = "Market" ->
            EmitFill(acc, order, bar_open)
      [] order.order_type = "Limit" ->
            IF order.limit_price # None
            THEN IF LimitFilled(order.side, order.limit_price[1], bar_high, bar_low)
                 THEN EmitFill(acc, order, order.limit_price[1])
                 ELSE KeepOrder(acc, order)
            ELSE acc
      [] order.order_type = "Stop" ->
            IF order.stop_price # None
            THEN IF StopTriggered(order.side, order.stop_price[1], bar_high, bar_low)
                 THEN EmitFill(acc, order, order.stop_price[1])
                 ELSE KeepOrder(acc, order)
            ELSE acc

RECURSIVE ProcessFrom(_, _, _, _, _, _)
ProcessFrom(orders, k, acc, bar_open, bar_high, bar_low) ==
    IF k > Len(orders)
    THEN acc
    ELSE ProcessFrom(orders, k + 1,
                     ProcessOne(acc, orders[k], bar_open, bar_high, bar_low),
                     bar_open, bar_high, bar_low)

process_orders_Undrained(pending, fill_id, bar_open, bar_high, bar_low) ==
    [ProcessFrom(pending, 1,
                 [fills |-> <<>>, keep |-> <<>>, next_fill_id |-> fill_id],
                 bar_open, bar_high, bar_low) EXCEPT !.keep = pending]

\* result of process_orders: the fills returned, the orders kept, the counter
process_orders(pending, fill_id, bar_open, bar_high, bar_low) ==
    ProcessFrom(pending, 1,
                [fills |-> <<>>, keep |-> <<>>, next_fill_id |-> fill_id],
                bar_open, bar_high, bar_low)

cancel_all_orders_Kept(pending) == pending

cancel_all_orders(pending) == <<>>

\* ------------------------------------------------------------------------
\* instrument/futures_contract.rs
\* ------------------------------------------------------------------------
\* FuturesContract::es
ContractES ==
    [symbol |-> "ES", tick_size |-> <<1, 4>>, tick_value |-> <<25, 2>>,
     initial_margin |-> R(13000), maintenance_margin |-> R(12000)]

\* FuturesContract::nq
ContractNQ ==
    [symbol |-> "NQ", tick_size |-> <<1, 4>>, tick_value |-> <<5, 1>>,
     initial_margin |-> R(17000), maintenance_margin |-> R(15500)]

price_to_ticks_Points(contract, price_diff) == price_diff

price_to_ticks(contract, price_diff) == RDiv(price_diff, contract.tick_size)

pnl_from_price_move_PerTick(contract, price_diff, quantity) ==
    RMul(price_to_ticks(contract, price_diff), contract.tick_value)

pnl_from_price_move(contract, price_diff, quantity) ==
    RMul(RMul(price_to_ticks(contract, price_diff), contract.tick_value),
         R(quantity))

initial_margin_requirement(contract, quantity) ==
    RMul(contract.initial_margin, R(Abs(quantity)))

maintenance_margin_requirement(contract, quantity) ==
    RMul(contract.maintenance_margin, R(Abs(quantity)))

\* ------------------------------------------------------------------------
\* portfolio/position.rs
\* ------------------------------------------------------------------------
PositionNew(symbol) ==
    [symbol |-> symbol, net_qty |-> 0, avg_entry_price |-> R(0),
     realized_pnl |-> R(0)]

is_flat(position) == position.net_qty = 0

unrealized_pnl_Unsigned(position, current_price, contract) ==
    IF position.net_qty = 0
    THEN R(0)
    ELSE pnl_from_price_move(contract,
                             RSub(current_price, position.avg_entry_price),
                             Abs(position.net_qty))

unrealized_pnl(position, current_price, contract) ==
    IF position.net_qty = 0
    THEN R(0)
    ELSE pnl_from_price_move(contract,
                             RSub(current_price, position.avg_entry_price),
                             position.net_qty)

update_with_fill_LastPrice(position, fill_qty, fill_price, contract) ==
    [position |-> [position EXCEPT !.net_qty = position.net_qty + fill_qty,
                                   !.avg_entry_price = fill_price],
     realized_pnl |-> R(0)]

\* result of update_with_fill: the updated position and the returned pnl
update_with_fill(position, fill_qty, fill_price, contract) ==
    IF position.net_qty = 0
    THEN [position |-> [position EXCEPT !.net_qty = fill_qty,
                                        !.avg_entry_price = fill_price],
          realized_pnl |-> R(0)]
    ELSE
    LET same_direction == \/ (position.net_qty > 0 /\ fill_qty > 0)
                          \/ (position.net_qty < 0 /\ fill_qty < 0)
    IN  IF same_direction
        THEN LET total_qty == position.net_qty + fill_qty
                 total_cost == RAdd(RMul(position.avg_entry_price,
                                         R(position.net_qty)),
                                    RMul(fill_price, R(fill_qty)))
             IN  [position |-> [position EXCEPT
                                    !.avg_entry_price = RDiv(total_cost, R(total_qty)),
                                    !.net_qty = total_qty],
                  realized_pnl |-> R(0)]
        ELSE LET close_qty == IF Abs(fill_qty) < Abs(position.net_qty)
                              THEN Abs(fill_qty) ELSE Abs(position.net_qty)
                 price_diff == IF position.net_qty > 0
                               THEN RSub(fill_price, position.avg_entry_price)
                               ELSE RSub(position.avg_entry_price, fill_price)
                 realized == pnl_from_price_move(contract, price_diff, close_qty)
                 net == position.net_qty + fill_qty
                 reversed == \/ (net > 0 /\ fill_qty > 0)
                             \/ (net < 0 /\ fill_qty < 0)
                 avg1 == IF reversed THEN fill_price
                                     ELSE position.avg_entry_price
                 avg2 == IF net = 0 THEN R(0) ELSE avg1
             IN  [position |-> [position EXCEPT
                                    !.realized_pnl = RAdd(position.realized_pnl, realized),
                                    !.net_qty = net,
                                    !.avg_entry_price = avg2],
                  realized_pnl |-> realized]

\* ------------------------------------------------------------------------
\* portfolio/account.rs
\* ------------------------------------------------------------------------
\* BacktestConfig::default
InitialBalance == 100000

MaxLookback == 500

CommissionPerContract == <<5, 2>>

SlippagePerContract == <<1, 1>>

AccountNew ==
    [initial_balance |-> R(InitialBalance),
     cash |-> R(InitialBalance), equity |-> R(InitialBalance),
     margin_used |-> R(0), open_positions |-> <<>>, trade_log |-> <<>>]

\* sum of the absolute values of a sequence of quantities
RECURSIVE SumQty(_)
SumQty(qs) == IF qs = <<>> THEN 0 ELSE Abs(Head(qs)) + SumQty(Tail(qs))

RECURSIVE SumOver(_, _)
SumOver(S, f) ==
    IF S = {} THEN R(0)
    ELSE LET x == CHOOSE y \in S : TRUE
         IN  RAdd(f[x], SumOver(S \ {x}, f))

total_cost_CommissionOnly(fill) ==
    RMul(CommissionPerContract, R(Abs(fill.qty)))

total_cost(fill) ==
    RMul(RAdd(CommissionPerContract, SlippagePerContract), R(Abs(fill.qty)))

update_margin_used(positions, contract) ==
    SumOver(DOMAIN positions,
            [s \in DOMAIN positions |->
                IF is_flat(positions[s]) THEN R(0)
                ELSE initial_margin_requirement(contract, positions[s].net_qty)])

\* open_positions.entry(symbol).or_insert_with(Position::new)
PositionOrNew(positions, symbol) ==
    IF symbol \in DOMAIN positions THEN positions[symbol]
                                   ELSE PositionNew(symbol)

process_fill_FeesOnly(acct, fill, contract) ==
    LET upd == update_with_fill(PositionOrNew(acct.open_positions, fill.symbol),
                                fill.qty, fill.fill_price, contract)
        positions == [s \in DOMAIN acct.open_positions \cup {fill.symbol} |->
                         IF s = fill.symbol THEN upd.position
                         ELSE acct.open_positions[s]]
    IN  [initial_balance |-> acct.initial_balance,
         cash |-> RSub(acct.cash, total_cost(fill)),
         equity |-> acct.equity,
         margin_used |-> update_margin_used(positions, contract),
         open_positions |-> positions,
         trade_log |-> Append(acct.trade_log, fill)]

process_fill(acct, fill, contract) ==
    LET cash1 == RSub(acct.cash, total_cost(fill))
        old == IF fill.symbol \in DOMAIN acct.open_positions
               THEN acct.open_positions[fill.symbol]
               ELSE PositionNew(fill.symbol)
        upd == update_with_fill(old, fill.qty, fill.fill_price, contract)
        positions == [s \in DOMAIN acct.open_positions \cup {fill.symbol} |->
                         IF s = fill.symbol THEN upd.position
                         ELSE acct.open_positions[s]]
    IN  [initial_balance |-> acct.initial_balance,
         cash |-> RAdd(cash1, upd.realized_pnl),
         equity |-> acct.equity,
         margin_used |-> update_margin_used(positions, contract),
         open_positions |-> positions,
         trade_log |-> Append(acct.trade_log, fill)]

update_equity_AllPriced(acct, prices, contracts) ==
    LET priced == DOMAIN acct.open_positions \cap DOMAIN prices
    IN  [acct EXCEPT !.equity =
            RAdd(acct.cash,
                 SumOver(priced, [s \in priced |->
                     unrealized_pnl(acct.open_positions[s], prices[s],
                                    IF s = "NQ" THEN ContractNQ
                                                ELSE ContractES)]))]

\* prices and contracts are functions from symbols to prices / contracts
update_equity(acct, prices, contracts) ==
    LET both == DOMAIN acct.open_positions \cap DOMAIN prices \cap DOMAIN contracts
    IN  [acct EXCEPT !.equity =
            RAdd(acct.cash,
                 SumOver(both, [s \in both |->
                     unrealized_pnl(acct.open_positions[s], prices[s],
                                    contracts[s])]))]

is_margin_breach_AtOrBelow(acct, contracts) ==
    LET held == DOMAIN acct.open_positions \cap DOMAIN contracts
    IN  RLe(acct.equity,
            SumOver(held, [s \in held |->
                IF is_flat(acct.open_positions[s]) THEN R(0)
                ELSE maintenance_margin_requirement(contracts[s],
                         acct.open_positions[s].net_qty)]))

is_margin_breach(acct, contracts) ==
    LET held == DOMAIN acct.open_positions \cap DOMAIN contracts
    IN  RLt(acct.equity,
            SumOver(held, [s \in held |->
                IF is_flat(acct.open_positions[s]) THEN R(0)
                ELSE maintenance_margin_requirement(contracts[s],
                         acct.open_positions[s].net_qty)]))

\* the loop `for fill in fills { account.process_fill(fill, contract) }`
RECURSIVE ApplyFills(_, _, _)
ApplyFills_LastOnly(acct, fs, contract) ==
    IF fs = <<>> THEN acct
    ELSE process_fill(acct, fs[Len(fs)], contract)

ApplyFills(acct, fs, contract) ==
    IF fs = <<>> THEN acct
    ELSE ApplyFills(process_fill(acct, Head(fs), contract), Tail(fs), contract)

\* ------------------------------------------------------------------------
\* State shared by the specifications
\* ------------------------------------------------------------------------
Acct ==
    [initial_balance |-> initial_balance,
     cash |-> cash, equity |-> equity, margin_used |-> margin_used,
     open_positions |-> open_positions, trade_log |-> trade_log]

SetAcct_EquityFromCash(a) ==
    /\ initial_balance' = a.initial_balance
    /\ cash' = a.cash
    /\ equity' = a.cash
    /\ margin_used' = a.margin_used
    /\ open_positions' = a.open_positions
    /\ trade_log' = a.trade_log

SetAcct(a) ==
    /\ initial_balance' = a.initial_balance
    /\ cash' = a.cash
    /\ equity' = a.equity
    /\ margin_used' = a.margin_used
    /\ open_positions' = a.open_positions
    /\ trade_log' = a.trade_log

NoCall == <<>>

\* ExecutionEngine::new, Account::new, BacktestEngine::new
InitCommon ==
    /\ next_order_id = FirstId
    /\ next_fill_id = FirstId
    /\ pending_orders = <<>>
    /\ initial_balance = AccountNew.initial_balance
    /\ cash = AccountNew.cash
    /\ equity = AccountNew.equity
    /\ margin_used = AccountNew.margin_used
    /\ open_positions = AccountNew.open_positions
    /\ trade_log = AccountNew.trade_log
    /\ bar_history = <<>>
    /\ max_history = MaxLookback
    /\ equity_history = <<>>
    /\ result = None
    /\ trace = <<>>
    /\ i = 0
    /\ op = "new"
    /\ ret = 0
    /\ fills = <<>>
    /\ call = NoCall
    /\ before = <<>>
    /\ resolved = <<>>
    /\ submitted = <<>>
    /\ issued = <<>>
    /\ calls = 0
    /\ emitted = <<>>

\* ------------------------------------------------------------------------
\* Calls on the ExecutionEngine (engine/execution.rs)
\* ------------------------------------------------------------------------
NotProcess ==
    /\ fills' = <<>>
    /\ call' = NoCall
    /\ before' = pending_orders
    /\ emitted' = emitted

EngineSubmit(order) ==
    /\ pending_orders' = submit_order(pending_orders, order)
    /\ ret' = order.id
    /\ op' = "submit_order"
    /\ NotProcess
    /\ UNCHANGED <<next_order_id, next_fill_id, issued>>

EngineMarketOrder(timestamp, symbol, qty, side) ==
    /\ pending_orders' = submit_order(pending_orders,
            OrderMarket(next_order_id, timestamp, symbol, qty, side))
    /\ next_order_id' = NextOrderId(next_order_id)
    /\ ret' = next_order_id
    /\ op' = "market_order"
    /\ issued' = Append(issued, next_order_id)
    /\ NotProcess
    /\ UNCHANGED next_fill_id

EngineLimitOrder(timestamp, symbol, qty, side, limit_price) ==
    /\ pending_orders' = submit_order(pending_orders,
            OrderLimit(next_order_id, timestamp, symbol, qty, side, limit_price))
    /\ next_order_id' = NextOrderId(next_order_id)
    /\ ret' = next_order_id
    /\ op' = "limit_order"
    /\ issued' = Append(issued, next_order_id)
    /\ NotProcess
    /\ UNCHANGED next_fill_id

\* process_orders(bar_open, bar_high, bar_low); r is its result
EngineProcess(r, bar_open, bar_high, bar_low) ==
    /\ pending_orders' = r.keep
    /\ next_fill_id' = r.next_fill_id
    /\ fills' = r.fills
    /\ emitted' = emitted \o [k \in 1..Len(r.fills) |-> r.fills[k].id]
    /\ call' = <<bar_open, bar_high, bar_low>>
    /\ before' = pending_orders
    /\ op' = "process_orders"
    /\ ret' = 0
    /\ UNCHANGED <<next_order_id, issued>>

EngineCancelAll ==
    /\ pending_orders' = cancel_all_orders(pending_orders)
    /\ op' = "cancel_all_orders"
    /\ ret' = 0
    /\ NotProcess
    /\ UNCHANGED <<next_order_id, next_fill_id, issued>>

\* ------------------------------------------------------------------------
\* Specification EngineSpec: the ExecutionEngine driven directly by a caller
\* ------------------------------------------------------------------------
\* orders a caller can build at time ts: the struct fields are public, so a
\* Limit or Stop order may come without its price
CallerOrders(ts) ==
    {OrderMarket(id, ts, ContractSymbol, q, sd) :
        id \in CallerIds, q \in Qtys, sd \in Sides}
    \cup
    {[id |-> id, timestamp |-> ts, symbol |-> ContractSymbol, qty |-> q,
      side |-> sd, order_type |-> "Limit", limit_price |-> lp,
      stop_price |-> None] :
        id \in CallerIds, q \in Qtys, sd \in Sides,
        lp \in {None} \cup {Some(p) : p \in Prices}}
    \cup
    {[id |-> id, timestamp |-> ts, symbol |-> ContractSymbol, qty |-> q,
      side |-> sd, order_type |-> "Stop", limit_price |-> None,
      stop_price |-> sp] :
        id \in CallerIds, q \in Qtys, sd \in Sides,
        sp \in {None} \cup {Some(p) : p \in Prices}}

EngineInit ==
    /\ InitCommon
    /\ bars = <<>>
    /\ pc = "engine"
    /\ current_time = 0

EngineFrame ==
    /\ calls < MaxCalls
    /\ calls' = calls + 1
    /\ UNCHANGED <<account_vars, context_vars, driver_vars, resolved, submitted>>

New ==
    /\ EngineFrame
    /\ next_order_id' = FirstId
    /\ next_fill_id' = FirstId
    /\ pending_orders' = <<>>
    /\ op' = "new"
    /\ ret' = 0
    /\ issued' = Append(issued, 0)
    /\ emitted' = <<>>
    /\ fills' = <<>>
    /\ call' = NoCall
    /\ before' = <<>>

Submit ==
    \E order \in CallerOrders(calls) :
        /\ EngineFrame
        /\ Len(pending_orders) < MaxPending
        /\ EngineSubmit(order)

MarketOrder ==
    \E q \in Qtys, sd \in Sides :
        /\ EngineFrame
        /\ Len(pending_orders) < MaxPending
        /\ EngineMarketOrder(calls, ContractSymbol, q, sd)

LimitOrder ==
    \E q \in Qtys, sd \in Sides, p \in Prices :
        /\ EngineFrame
        /\ Len(pending_orders) < MaxPending
        /\ EngineLimitOrder(calls, ContractSymbol, q, sd, p)

Process ==
    \E o \in Opens, h \in Prices, l \in Prices :
        /\ EngineFrame
        /\ EngineProcess(process_orders(pending_orders, next_fill_id, o, h, l),
                         o, h, l)

CancelAll ==
    /\ EngineFrame
    /\ EngineCancelAll

EngineNext ==
    \/ New
    \/ Submit
    \/ MarketOrder
    \/ LimitOrder
    \/ Process
    \/ CancelAll

EngineSpec == EngineInit /\ [][EngineNext]_vars

\* ------------------------------------------------------------------------
\* Specification Spec: BacktestEngine::run with an arbitrary strategy
\* (engine/backtest.rs, strategy/mod.rs)
\* ------------------------------------------------------------------------
\* the OHLC shapes of the input bars: a quiet bar and a rising bar that
\* opens off its low and closes off its high
BarShapes ==
    {[open |-> R(100), high |-> R(100), low |-> R(100), close |-> R(100)],
     [open |-> R(104), high |-> R(110), low |-> R(103), close |-> R(108)]}

\* bar sequences as the loader hands them over: sorted by timestamp
BarSeqs == UNION {[1..n -> BarShapes] : n \in 0..MaxBars}

\* what a strategy submits through the context: (type, quantity, side, price)
StratMarkets == {<<1, "Buy">>, <<2, "Sell">>}

StratLimits == {<<1, "Buy", R(100)>>, <<1, "Sell", R(105)>>}

MakeBar(shape, k) ==
    [timestamp |-> k, open |-> shape.open, high |-> shape.high,
     low |-> shape.low, close |-> shape.close]

\* the strategy hooks during which the context is in the strategy's hands
Hooks == {"on_start", "on_bar", "on_end"}

\* the bar of the current loop iteration (0-based index i)
CurBar == bars[i + 1]

LastBar == bars[Len(bars)]

Init ==
    /\ InitCommon
    /\ \E shapes \in BarSeqs :
          bars = [k \in 1..Len(shapes) |-> MakeBar(shapes[k], k - 1)]
    /\ current_time \in NowValues
    /\ pc = "on_start"

\* StrategyContext::push_bar
pop_front(history) == IF history = <<>> THEN <<>> ELSE Tail(history)

push_bar(history, max, bar) ==
    Append(IF Len(history) >= max THEN pop_front(history) ELSE history, bar)

ShouldResolve_Always(k) == k >= 0

\* the loop resolves orders only when i > 0
ShouldResolve(k) == k > 0

LoopArgs_Close(bar) == <<bar.close, bar.high, bar.low>>

\* the bar range handed to process_orders inside the loop
LoopArgs(bar) == <<bar.open, bar.high, bar.low>>

FinalArgs_Open(bar) == <<bar.open, bar.high, bar.low>>

\* the bar range handed to process_orders after the loop
FinalArgs(bar) == <<bar.close, bar.high, bar.low>>

Where == [bar |-> i, phase |-> pc]

\* a completed step of run(): what was done, at which loop index
Step(what, k) == [step |-> what, bar |-> k]

AfterBar_Once(k, n) == "post1"

\* `for i in 0..self.bars.len()`: the next iteration, or the end of the loop
AfterBar(k, n) == IF k + 1 < n THEN "push_bar" ELSE "post1"

\* calculate_trade_statistics: the number of round trips in the trade log;
\* open holds the quantities of open_trades
RECURSIVE RoundTripsFrom(_, _, _, _)
RoundTripsFrom(trades, k, open, count) ==
    IF k > Len(trades) THEN count
    ELSE LET qty == trades[k].qty
             last == open[Len(open)]
             same_direction == (last > 0 /\ qty > 0) \/ (last < 0 /\ qty < 0)
             total_qty == SumQty(open)
         IN  IF open = <<>>
             THEN RoundTripsFrom(trades, k + 1, <<qty>>, count)
             ELSE IF same_direction
                  THEN RoundTripsFrom(trades, k + 1, Append(open, qty), count)
                  ELSE RoundTripsFrom(trades, k + 1,
                                      IF Abs(qty) > total_qty THEN <<qty>>
                                                              ELSE <<>>,
                                      count + 1)

num_trades(trades) == RoundTripsFrom(trades, 1, <<>>, 0)

build_result_Seeded(history, log) ==
    [equity_curve |-> <<<<0, R(InitialBalance)>>>> \o history, trades |-> log,
     num_trades |-> num_trades(log)]

\* BacktestEngine::build_result: timestamps and values of the equity curve,
\* the trades, and the summary's trade count
build_result(history, log) ==
    [equity_curve |-> history, trades |-> log,
     num_trades |-> num_trades(log)]

\* the record kept of an order submitted by the strategy
Submission(order) ==
    [bar |-> i, phase |-> pc, order |-> order, cancelled |-> FALSE]

PendingIds == {pending_orders[k].id : k \in DOMAIN pending_orders}

DriverFrame == UNCHANGED <<bars, calls>>

\* one more call of the strategy on its context
StratCall ==
    /\ pc \in Hooks
    /\ calls < MaxStratCalls
    /\ calls' = calls + 1
    /\ UNCHANGED <<bars, account_vars, context_vars, pc, i, equity_history,
                   result, trace, resolved>>

\* context.market_order called by the strategy inside a hook
StratMarketOrder ==
    \E m \in StratMarkets :
        /\ StratCall
        /\ EngineMarketOrder(current_time, ContractSymbol, m[1], m[2])
        /\ submitted' = Append(submitted, Submission(
                OrderMarket(next_order_id, current_time, ContractSymbol,
                            m[1], m[2])))

\* context.limit_order called by the strategy inside a hook
StratLimitOrder ==
    \E m \in StratLimits :
        /\ StratCall
        /\ EngineLimitOrder(current_time, ContractSymbol, m[1], m[2], m[3])
        /\ submitted' = Append(submitted, Submission(
                OrderLimit(next_order_id, current_time, ContractSymbol,
                           m[1], m[2], m[3])))

\* context.cancel_all_orders called by the strategy inside a hook
StratCancelAll ==
    /\ StratCall
    /\ EngineCancelAll
    /\ submitted' = [id \in DOMAIN submitted |->
                        IF id \in PendingIds
                        THEN [submitted[id] EXCEPT !.cancelled = TRUE]
                        ELSE submitted[id]]

\* strategy.on_start returns; the loop starts, or is skipped when bars is empty
OnStartReturn ==
    /\ pc = "on_start"
    /\ pc' = IF Len(bars) > 0 THEN "push_bar" ELSE "post1"
    /\ trace' = Append(trace, Step("on_start", 0))
    /\ UNCHANGED <<i, context_vars, result>>
    /\ UNCHANGED <<bars, engine_vars, account_vars, equity_history, obs_vars>>

\* context.push_bar(bar) at the top of iteration i
PushBar ==
    /\ pc = "push_bar"
    /\ current_time' = CurBar.timestamp
    /\ bar_history' = push_bar(bar_history, max_history, CurBar)
    /\ pc' = "on_bar"
    /\ trace' = Append(trace, Step("push_bar", i))
    /\ UNCHANGED <<i, bars, engine_vars, account_vars, equity_history, obs_vars,
                   max_history, result>>

\* strategy.on_bar returns
OnBarReturn ==
    /\ pc = "on_bar"
    /\ pc' = "resolve"
    /\ trace' = Append(trace, Step("on_bar", i))
    /\ UNCHANGED <<i, context_vars, result>>
    /\ UNCHANGED <<bars, engine_vars, account_vars, equity_history, obs_vars>>

\* process_orders on the given range followed by process_fill of each fill
ResolveAndApply(args) ==
    LET r == process_orders(pending_orders, next_fill_id,
                            args[1], args[2], args[3])
    IN  /\ EngineProcess(r, args[1], args[2], args[3])
        /\ resolved' = resolved \o [k \in 1..Len(r.fills) |-> Where]
        /\ UNCHANGED submitted

\* `if i > 0 { process_orders(bar.open, bar.high, bar.low); process fills }`
ResolveOrders ==
    /\ pc = "resolve"
    /\ IF ShouldResolve(i)
       THEN /\ ResolveAndApply(LoopArgs(CurBar))
            /\ SetAcct(ApplyFills(Acct, fills', ContractES))
            /\ trace' = Append(trace, Step("resolve", i))
       ELSE UNCHANGED <<engine_vars, account_vars, obs_vars, trace>>
    /\ pc' = "record"
    /\ UNCHANGED <<i, context_vars, equity_history, result>>
    /\ DriverFrame

ClosePrices_Open(bar) == [s \in {ContractSymbol} |-> bar.open]

\* the price map of the mark-to-market: the contract's symbol at the bar's close
ClosePrices(bar) == [s \in {ContractSymbol} |-> bar.close]

Contracts == [s \in {ContractSymbol} |-> ContractES]

\* update_equity at the bar's close and push of the equity snapshot
RecordEquity ==
    /\ pc = "record"
    /\ LET a == update_equity(Acct, ClosePrices(CurBar), Contracts)
       IN  /\ SetAcct(a)
           /\ equity_history' = Append(equity_history,
                                       <<CurBar.timestamp, a.equity>>)
    /\ i' = i + 1
    /\ pc' = AfterBar(i, Len(bars))
    /\ trace' = Append(trace, Step("record", i))
    /\ UNCHANGED <<engine_vars, context_vars, obs_vars, result>>
    /\ DriverFrame

\* "process any remaining orders at final bar", before on_end
PostLoopResolve ==
    /\ pc = "post1"
    /\ IF Len(bars) > 0
       THEN /\ ResolveAndApply(FinalArgs(LastBar))
            /\ SetAcct(ApplyFills(Acct, fills', ContractES))
            /\ trace' = Append(trace, Step("post1", i))
       ELSE UNCHANGED <<engine_vars, account_vars, obs_vars, trace>>
    /\ pc' = "on_end"
    /\ UNCHANGED <<i, context_vars, equity_history, result>>
    /\ DriverFrame

\* strategy.on_end returns
OnEndReturn ==
    /\ pc = "on_end"
    /\ pc' = "post2"
    /\ trace' = Append(trace, Step("on_end", i))
    /\ UNCHANGED <<i, context_vars, result>>
    /\ UNCHANGED <<bars, engine_vars, account_vars, equity_history, obs_vars>>

OverwriteLast_Appended(history, value) ==
    IF history # <<>>
    THEN Append(history, <<history[Len(history)][1], value>>)
    ELSE history

\* `if let Some(last) = equity_history.last_mut() { last.1 = equity }`
OverwriteLast(history, value) ==
    IF history # <<>>
    THEN [history EXCEPT ![Len(history)][2] = value]
    ELSE history

\* "process final orders", final equity update, overwrite of the last
\* snapshot, build_result
FinalResolve ==
    /\ pc = "post2"
    /\ IF Len(bars) > 0
       THEN /\ ResolveAndApply(FinalArgs(LastBar))
            /\ LET a == update_equity(ApplyFills(Acct, fills', ContractES),
                                      ClosePrices(LastBar), Contracts)
               IN  /\ SetAcct(a)
                   /\ equity_history' = OverwriteLast(equity_history, a.equity)
            /\ trace' = Append(trace, Step("post2", i))
       ELSE UNCHANGED <<engine_vars, account_vars, obs_vars, equity_history,
                        trace>>
    /\ result' = Some(build_result(equity_history', trade_log'))
    /\ pc' = "done"
    /\ UNCHANGED <<i, context_vars>>
    /\ DriverFrame

Next ==
    \/ StratMarketOrder
    \/ StratLimitOrder
    \/ StratCancelAll
    \/ OnStartReturn
    \/ PushBar
    \/ OnBarReturn
    \/ ResolveOrders
    \/ RecordEquity
    \/ PostLoopResolve
    \/ OnEndReturn
    \/ FinalResolve

Spec == Init /\ [][Next]_vars

\* ------------------------------------------------------------------------
\* Properties of BacktestEngine::run (specification Spec)
\* ------------------------------------------------------------------------
\* the submission record of the order behind the k-th logged fill
Sub(k) == submitted[trade_log[k].order_id]

LoggedIds == {trade_log[k].order_id : k \in DOMAIN trade_log}

InLoopOrder(s) == s.phase = "on_bar" /\ s.order.order_type = "Market"

C2_NextBarOpenSemantics ==
    \A k \in DOMAIN trade_log :
        (InLoopOrder(Sub(k)) /\ resolved[k].phase = "resolve") =>
            /\ resolved[k].bar > Sub(k).bar
            /\ trade_log[k].fill_price = bars[resolved[k].bar + 1].open

\* the strategy of the end-to-end scenario: one call on the context, a
\* one-contract Buy market order, made while processing bar 0
C3_Scenario ==
    /\ Len(bars) >= 2
    /\ calls = 1
    /\ Len(submitted) = 1
    /\ submitted[1].phase = "on_bar" /\ submitted[1].bar = 0
    /\ submitted[1].order.order_type = "Market"
    /\ submitted[1].order.side = "Buy"
    /\ submitted[1].order.qty = 1

C3_BeforeFill == i = 0 \/ (i = 1 /\ pc \in {"push_bar", "on_bar", "resolve"})

\* C3: in the scenario the trade log holds exactly one fill from bar 1's
\* resolution on, priced at bar 1's open; cash is then the initial balance
\* less commission and slippage for one contract, and every snapshot from
\* bar 1 on is cash plus the unrealized P&L of one long contract against
\* that bar's close.
C3_SingleBuyScenario ==
    C3_Scenario =>
        /\ Len(trade_log) = IF C3_BeforeFill THEN 0 ELSE 1
        /\ Len(trade_log) = 1 =>
              /\ trade_log[1].fill_price = bars[2].open
              /\ trade_log[1].qty = 1
              /\ cash = RSub(R(InitialBalance),
                             RAdd(CommissionPerContract, SlippagePerContract))
        /\ \A k \in 2..Len(equity_history) :
              equity_history[k] =
                 <<bars[k].timestamp,
                   RAdd(cash,
                        RMul(RDiv(RSub(bars[k].close, bars[2].open),
                                  ContractES.tick_size),
                             ContractES.tick_value))>>

C3_Witness ==
    /\ C3_Scenario
    /\ pc = "done"
    /\ Len(bars) = 3
    /\ trade_log[1].fill_price # bars[3].close
    /\ equity_history[3][2] # cash

EarlyOrder(s) == s.phase = "on_start" \/ (s.phase = "on_bar" /\ s.bar = 0)

\* C4 as claimed: the fills of orders submitted by the start hook or while
\* processing bar 0 come from the post-loop resolution only.
C4_ResolvedOnlyAfterLoop ==
    \A k \in DOMAIN trade_log :
        EarlyOrder(Sub(k)) => resolved[k].phase \in {"post1", "post2"}

\* C4 as amended: bar 0's iteration resolves nothing, so orders submitted by
\* the start hook or while processing bar 0 stay pending through it; their
\* first resolution is bar 1's in-loop resolution when the run has at least
\* two bars, and the first post-loop resolution in a one-bar run (a market
\* order fills there).
C4_ResolvedFromBarOne ==
    /\ \A k \in DOMAIN resolved :
          resolved[k].phase = "resolve" => resolved[k].bar > 0
    /\ \A id \in DOMAIN submitted :
          (/\ EarlyOrder(submitted[id]) /\ ~submitted[id].cancelled
           /\ \/ i = 0
              \/ i = 1 /\ pc \in {"push_bar", "on_bar", "resolve", "post1"})
          => id \in PendingIds
    /\ \A k \in DOMAIN trade_log :
          (EarlyOrder(Sub(k)) /\ Sub(k).order.order_type = "Market") =>
             resolved[k] = [bar |-> 1,
                            phase |-> IF Len(bars) >= 2 THEN "resolve"
                                                        ELSE "post1"]

C4_Witness ==
    \E k \in DOMAIN trade_log :
        /\ EarlyOrder(Sub(k))
        /\ Len(bars) >= 2
        /\ resolved[k] = [bar |-> 1, phase |-> "resolve"]

\* ------------------------------------------------------------------------
\* Properties of the ExecutionEngine (specification EngineSpec)
\* ------------------------------------------------------------------------
Range(seq) == {seq[k] : k \in DOMAIN seq}

\* the fills the last process_orders returned for order o
FillsOf(o) ==
    {k \in DOMAIN fills :
        fills[k].order_id = o.id /\ fills[k].timestamp = o.timestamp}

PricedLimit(o) == o.order_type = "Limit" /\ o.limit_price # None

PricedStop(o) == o.order_type = "Stop" /\ o.stop_price # None

LimitMet(o) ==
    IF o.side = "Buy" THEN RLe(call[3], o.limit_price[1])
                      ELSE RLe(o.limit_price[1], call[2])

StopMet(o) ==
    IF o.side = "Buy" THEN RLe(o.stop_price[1], call[2])
                      ELSE RLe(call[3], o.stop_price[1])

\* C5: in one process_orders call a pending Limit Buy at P is filled iff
\* bar_low <= P and a pending Limit Sell at P iff bar_high >= P, and the fill
\* price is P, not bar_open.
C5_LimitFillRule ==
    op = "process_orders" =>
        \A o \in Range(before) :
            PricedLimit(o) =>
                /\ (FillsOf(o) # {}) <=> LimitMet(o)
                /\ \A k \in FillsOf(o) :
                      /\ fills[k].fill_price = o.limit_price[1]
                      /\ fills[k].fill_price # call[1]

C5_Witness ==
    /\ op = "process_orders"
    /\ \E o \in Range(before) :
          /\ PricedLimit(o) /\ o.side = "Buy"
          /\ RLt(call[1], o.limit_price[1])
          /\ \E k \in FillsOf(o) : fills[k].fill_price = o.limit_price[1]

\* C6: a priced limit order stays in the pending set, unchanged, through
\* every call whose bar range does not meet its condition; it leaves the
\* pending set only by a process_orders call that fills it or by
\* cancel_all_orders.
C6_LimitSurvives ==
    \A o \in Range(before) :
        PricedLimit(o) =>
            \/ /\ Cardinality({k \in DOMAIN pending_orders :
                                  pending_orders[k] = o}) = 1
               /\ op = "process_orders" => (~LimitMet(o) /\ FillsOf(o) = {})
            \/ /\ op = "cancel_all_orders"
               /\ pending_orders = <<>>
            \/ /\ op = "process_orders"
               /\ LimitMet(o)
               /\ FillsOf(o) # {}
               /\ o \notin Range(pending_orders)

\* a limit order that two consecutive process_orders calls left pending
C6_Witness ==
    /\ op = "process_orders"
    /\ calls = 3
    /\ issued = <<1>>
    /\ fills = <<>>
    /\ Len(before) = 1
    /\ PricedLimit(before[1])
    /\ before[1].timestamp = 0
    /\ pending_orders = before

\* C7: in one process_orders call a pending Stop Buy at S is filled iff
\* bar_high >= S and a pending Stop Sell at S iff bar_low <= S, at price S;
\* otherwise it is still pending after the call.
C7_StopFillRule ==
    op = "process_orders" =>
        \A o \in Range(before) :
            PricedStop(o) =>
                /\ (FillsOf(o) # {}) <=> StopMet(o)
                /\ \A k \in FillsOf(o) :
                      fills[k].fill_price = o.stop_price[1]
                /\ StopMet(o) <=> o \notin Range(pending_orders)

C7_Witness ==
    /\ op = "process_orders"
    /\ \E o \in Range(before) :
          /\ PricedStop(o) /\ o.side = "Sell"
          /\ \E k \in FillsOf(o) : fills[k].fill_price = o.stop_price[1]
    /\ \E o \in Range(before) :
          PricedStop(o) /\ ~StopMet(o) /\ o \in Range(pending_orders)

\* C8: after a process_orders call every order that was pending before it
\* either has exactly one returned fill, for its full signed quantity, or is
\* still pending - also a Limit/Stop order without its price.
C8_NoOrderLost ==
    op = "process_orders" =>
        \A o \in Range(before) :
            \/ /\ Cardinality(FillsOf(o)) = 1
               /\ \A k \in FillsOf(o) : fills[k].qty = signed_qty(o)
               /\ o \notin Range(pending_orders)
            \/ /\ FillsOf(o) = {}
               /\ o \in Range(pending_orders)

\* C9: no Limit order without a limit price and no Stop order without a stop
\* price is ever in the pending set.
C9_PricelessRejected ==
    \A o \in Range(pending_orders) :
        /\ o.order_type = "Limit" => o.limit_price # None
        /\ o.order_type = "Stop" => o.stop_price # None

\* C10: on each engine instance market_order and limit_order return 1, 2,
\* 3, ... in call order, whatever other calls come in between, and a new
\* instance starts again at 1.
C10_OrderIdsCountFromOne ==
    /\ \A k \in DOMAIN issued :
          issued[k] # 0 =>
             issued[k] = (IF k = 1 THEN 0 ELSE issued[k - 1]) + 1
    /\ op \in {"market_order", "limit_order"} =>
          (issued # <<>> /\ ret = issued[Len(issued)])
    /\ op = "new" => next_order_id = 1

C10_Witness == issued = <<1, 0, 1>>

Fillable(o) ==
    \/ o.order_type = "Market"
    \/ PricedLimit(o) /\ LimitMet(o)
    \/ PricedStop(o) /\ StopMet(o)

\* the order is priced and the arguments in call do not meet its condition
Retained(o) ==
    \/ PricedLimit(o) /\ ~LimitMet(o)
    \/ PricedStop(o) /\ ~StopMet(o)

OrderKeys(orders) ==
    [k \in DOMAIN orders |-> <<orders[k].id, orders[k].timestamp>>]

\* C12: one process_orders call goes through every pending order: the fills
\* it returns are those of the fillable orders, in the order the orders were
\* submitted, and the orders it keeps are the un-triggered limit and stop
\* orders, in the order they were submitted.
C12_SubmissionOrderKept ==
    op = "process_orders" =>
        /\ [k \in DOMAIN fills |-> <<fills[k].order_id, fills[k].timestamp>>]
              = OrderKeys(SelectSeq(before, Fillable))
        /\ pending_orders = SelectSeq(before, Retained)

\* a limit order submitted before a market order, both filled by one call
C12_Witness ==
    /\ op = "process_orders"
    /\ Len(before) = 2
    /\ PricedLimit(before[1])
    /\ before[2].order_type = "Market"
    /\ Len(fills) = 2
    /\ fills[1].timestamp = before[1].timestamp
    /\ fills[2].timestamp = before[2].timestamp
    /\ fills[1].timestamp < fills[2].timestamp

\* ------------------------------------------------------------------------
\* Specification AccountSpec: the Account driven directly by a caller that
\* trades two symbols, each with its own contract
\* ------------------------------------------------------------------------
\* calls that change the account, per behaviour
MaxAcctCalls == 3

AcctSymbols == {"ES", "NQ"}

\* the contract specification of each symbol
ContractOf == [s \in AcctSymbols |-> IF s = "NQ" THEN ContractNQ ELSE ContractES]

\* initial_balance handed to Account::new: the maintenance margin of one ES
\* contract, and nothing
AcctBalances == {R(12000), R(0)}

AcctPrices == {R(100), R(140)}

\* unsigned quantity and side of the orders behind the fills
AcctOrders ==
    {<<1, "Buy">>, <<5, "Buy">>, <<0, "Buy">>, <<1, "Sell">>, <<8, "Sell">>}

\* symbol, order and price of the fills handed to process_fill
AcctFills ==
    {<<"ES", o, p>> : o \in AcctOrders, p \in AcctPrices}
    \cup {<<"NQ", o, R(100)>> : o \in {<<1, "Buy">>, <<1, "Sell">>}}

\* contract maps handed to update_equity / is_margin_breach
ContractMaps == {[s \in S |-> ContractOf[s]] : S \in {{"ES"}, {"ES", "NQ"}}}

\* price map and contract map handed to update_equity: a price and a
\* contract for every symbol, no price for NQ, no price for ES, no contract
\* for NQ
MarkInputs ==
    {<<[s \in AcctSymbols |-> p], ContractOf>> : p \in AcctPrices}
    \cup {<<[s \in {"ES"} |-> R(100)], ContractOf>>,
          <<[s \in {"NQ"} |-> R(140)], ContractOf>>,
          <<[s \in AcctSymbols |-> R(140)], [s \in {"ES"} |-> ContractES]>>}

\* Account::new(initial_balance, commission, slippage)
AccountInit ==
    /\ next_order_id = FirstId
    /\ next_fill_id = FirstId
    /\ pending_orders = <<>>
    /\ cash \in AcctBalances
    /\ initial_balance = cash
    /\ equity = cash
    /\ margin_used = R(0)
    /\ open_positions = <<>>
    /\ trade_log = <<>>
    /\ bar_history = <<>>
    /\ current_time = 0
    /\ max_history = MaxLookback
    /\ bars = <<>>
    /\ pc = "account"
    /\ i = 0
    /\ equity_history = <<>>
    /\ result = None
    /\ trace = <<>>
    /\ op = "new"
    /\ ret = R(0)
    /\ fills = <<>>
    /\ call = NoCall
    /\ before = [initial_balance |-> cash,
                 cash |-> cash, equity |-> cash, margin_used |-> R(0),
                 open_positions |-> <<>>, trade_log |-> <<>>]
    /\ resolved = <<>>
    /\ submitted = <<>>
    /\ issued = <<>>
    /\ calls = 0
    /\ emitted = <<>>

AcctUntouched ==
    UNCHANGED <<engine_vars, context_vars, driver_vars, fills, resolved,
                submitted, issued, emitted>>

\* account.process_fill(fill, contract) with the contract of the fill's
\* symbol; ret observes the value Position::update_with_fill returned
ProcessFill ==
    \E f \in AcctFills :
        LET sym == f[1]
            fill == FillFromOrder(Len(trade_log) + 1,
                        OrderMarket(Len(trade_log) + 1, calls, sym,
                                    f[2][1], f[2][2]),
                        f[3], R(0))
        IN  /\ calls < MaxAcctCalls
            /\ calls' = calls + 1
            /\ SetAcct(process_fill(Acct, fill, ContractOf[sym]))
            /\ op' = "process_fill"
            /\ call' = <<fill, ContractOf[sym]>>
            /\ before' = Acct
            /\ ret' = update_with_fill(PositionOrNew(open_positions, sym),
                                       fill.qty, fill.fill_price,
                                       ContractOf[sym]).realized_pnl
            /\ AcctUntouched

\* account.update_equity(&prices, &contracts)
UpdateEquity ==
    \E m \in MarkInputs :
        /\ calls < MaxAcctCalls
        /\ calls' = calls + 1
        /\ SetAcct(update_equity(Acct, m[1], m[2]))
        /\ op' = "update_equity"
        /\ call' = m
        /\ before' = Acct
        /\ ret' = R(0)
        /\ AcctUntouched

\* position.unrealized_pnl(current_price, contract) on a position of the account
UnrealizedPnl ==
    \E sym \in DOMAIN open_positions, p \in AcctPrices :
        /\ ret' = unrealized_pnl(open_positions[sym], p, ContractOf[sym])
        /\ op' = "unrealized_pnl"
        /\ call' = <<sym, p>>
        /\ before' = Acct
        /\ UNCHANGED <<account_vars, calls>>
        /\ AcctUntouched

\* account.is_margin_breach(&contracts)
IsMarginBreach ==
    \E contracts \in ContractMaps :
        /\ ret' = is_margin_breach(Acct, contracts)
        /\ op' = "is_margin_breach"
        /\ call' = <<contracts>>
        /\ before' = Acct
        /\ UNCHANGED <<account_vars, calls>>
        /\ AcctUntouched

AccountNext ==
    \/ ProcessFill
    \/ UpdateEquity
    \/ UnrealizedPnl
    \/ IsMarginBreach

AccountSpec == AccountInit /\ [][AccountNext]_vars

\* ------------------------------------------------------------------------
\* Properties of Position and Account (specification AccountSpec)
\* ------------------------------------------------------------------------
\* the fill of the last process_fill, and the position of its symbol before
\* and after the call
LastFill == call[1]

OldPos == PositionOrNew(before.open_positions, LastFill.symbol)

NewPos == open_positions[LastFill.symbol]

SameSign(a, b) == (a > 0 /\ b > 0) \/ (a < 0 /\ b < 0)

OppositeSign(a, b) == (a > 0 /\ b < 0) \/ (a < 0 /\ b > 0)

\* the fills of symbol s in the trade log, oldest first
FillsOfSymbol(s) ==
    LET OfSymbol(f) == f.symbol = s
    IN  SelectSeq(trade_log, OfSymbol)

\* C13: whatever fills have been applied to a position since it was created,
\* fills of quantity 0 included, its avg_entry_price is 0 whenever its net_qty
\* is 0.
C13_FlatHasZeroAverage ==
    \A s \in DOMAIN open_positions :
        open_positions[s].net_qty = 0 =>
            open_positions[s].avg_entry_price = R(0)

\* C14: a fill of the same sign as a non-flat position gives net = net + fill
\* and an average with new_avg * (|net| + |fill|) = avg * |net| + price *
\* |fill|, returns realized P&L 0 and leaves the cumulative realized P&L
\* alone; two fills q1@p1, q2@p2 of the same sign on a new position give
\* average (q1*p1 + q2*p2)/(q1 + q2) and net q1 + q2.
C14_Blending ==
    /\ (op = "process_fill" /\ SameSign(OldPos.net_qty, LastFill.qty)) =>
          /\ NewPos.net_qty = OldPos.net_qty + LastFill.qty
          /\ RMul(NewPos.avg_entry_price,
                  R(Abs(OldPos.net_qty) + Abs(LastFill.qty)))
                = RAdd(RMul(OldPos.avg_entry_price, R(Abs(OldPos.net_qty))),
                       RMul(LastFill.fill_price, R(Abs(LastFill.qty))))
          /\ ret = R(0)
          /\ NewPos.realized_pnl = OldPos.realized_pnl
    /\ \A s \in DOMAIN open_positions :
          LET fs == FillsOfSymbol(s)
          IN  (Len(fs) = 2 /\ SameSign(fs[1].qty, fs[2].qty)) =>
                 /\ open_positions[s].net_qty = fs[1].qty + fs[2].qty
                 /\ open_positions[s].avg_entry_price
                       = RDiv(RAdd(RMul(R(fs[1].qty), fs[1].fill_price),
                                   RMul(R(fs[2].qty), fs[2].fill_price)),
                              R(fs[1].qty + fs[2].qty))

\* a new position bought twice at different prices, in different sizes
C14_Witness ==
    /\ op = "process_fill"
    /\ Len(FillsOfSymbol(LastFill.symbol)) = 2
    /\ SameSign(OldPos.net_qty, LastFill.qty)
    /\ OldPos.net_qty # LastFill.qty
    /\ RLt(OldPos.avg_entry_price, NewPos.avg_entry_price)
    /\ RLt(NewPos.avg_entry_price, LastFill.fill_price)

\* quantity closed by the last fill, and the P&L the claim states for it
ClosedQty ==
    IF Abs(LastFill.qty) < Abs(OldPos.net_qty) THEN Abs(LastFill.qty)
                                               ELSE Abs(OldPos.net_qty)

ClosedPnl ==
    LET contract == call[2]
        move == IF OldPos.net_qty > 0
                THEN RSub(LastFill.fill_price, OldPos.avg_entry_price)
                ELSE RSub(OldPos.avg_entry_price, LastFill.fill_price)
    IN  RMul(RMul(RDiv(move, contract.tick_size), contract.tick_value),
             R(ClosedQty))

\* C15: a fill of the opposite sign closes min(|fill|, |net|) units, returns
\* and accumulates (fill_price - avg)/tick_size * tick_value * closed for a
\* long ((avg - fill_price) for a short) against the average before the
\* fill; net becomes net + fill; the average is unchanged if |fill| < |net|,
\* 0 with a flat position if |fill| = |net|, and the fill price if
\* |fill| > |net|.
C15_ReductionAndReversal ==
    (op = "process_fill" /\ OppositeSign(OldPos.net_qty, LastFill.qty)) =>
        /\ ret = ClosedPnl
        /\ NewPos.realized_pnl = RAdd(OldPos.realized_pnl, ClosedPnl)
        /\ NewPos.net_qty = OldPos.net_qty + LastFill.qty
        /\ Abs(LastFill.qty) < Abs(OldPos.net_qty) =>
              NewPos.avg_entry_price = OldPos.avg_entry_price
        /\ Abs(LastFill.qty) = Abs(OldPos.net_qty) =>
              (NewPos.net_qty = 0 /\ NewPos.avg_entry_price = R(0))
        /\ Abs(LastFill.qty) > Abs(OldPos.net_qty) =>
              NewPos.avg_entry_price = LastFill.fill_price

\* long 5 @ 100 sold 8 @ 140: P&L of 5 units realized, net -3 @ 140
C15_Witness ==
    /\ op = "process_fill"
    /\ LastFill.symbol = "ES"
    /\ OldPos.net_qty = 5
    /\ OldPos.avg_entry_price = R(100)
    /\ LastFill.qty = -8
    /\ LastFill.fill_price = R(140)
    /\ ret = R(10000)
    /\ NewPos.net_qty = -3
    /\ NewPos.avg_entry_price = R(140)

\* C16: unrealized_pnl is 0 for a flat position and otherwise
\* (price - avg_entry_price)/tick_size * tick_value * net_qty with net_qty
\* signed: a short position gains below its average entry, a long one above.
C16_UnrealizedPnl ==
    op = "unrealized_pnl" =>
        LET position == open_positions[call[1]]
            contract == ContractOf[call[1]]
            price == call[2]
        IN  /\ position.net_qty = 0 => ret = R(0)
            /\ position.net_qty # 0 =>
                  ret = RMul(RMul(RDiv(RSub(price, position.avg_entry_price),
                                       contract.tick_size),
                                  contract.tick_value),
                             R(position.net_qty))
            /\ (position.net_qty < 0
                  /\ RLt(price, position.avg_entry_price)) => RLt(R(0), ret)
            /\ (position.net_qty > 0
                  /\ RLt(position.avg_entry_price, price)) => RLt(R(0), ret)

\* a short position marked below its average entry price
C16_Witness ==
    /\ op = "unrealized_pnl"
    /\ open_positions[call[1]].net_qty < 0
    /\ RLt(call[2], open_positions[call[1]].avg_entry_price)
    /\ RLt(R(0), ret)

\* C17: process_fill changes cash by exactly -(commission_per_contract +
\* slippage_per_contract) * |fill.qty| + the realized P&L the position
\* returned for the fill; the position of the fill's symbol exists afterwards,
\* no position is removed and no other position changes; the fill is the new
\* last entry of the trade log.
C17_ProcessFill ==
    /\ op = "process_fill" =>
          /\ cash = RAdd(RSub(before.cash,
                              RMul(RAdd(CommissionPerContract,
                                        SlippagePerContract),
                                   R(Abs(LastFill.qty)))),
                         ret)
          /\ DOMAIN open_positions
                = DOMAIN before.open_positions \cup {LastFill.symbol}
          /\ \A s \in DOMAIN before.open_positions :
                s # LastFill.symbol =>
                    open_positions[s] = before.open_positions[s]
          /\ trade_log = Append(before.trade_log, LastFill)
    /\ DOMAIN before.open_positions \subseteq DOMAIN open_positions

\* a fill that realizes P&L while a position in the other symbol is held
C17_Witness ==
    /\ op = "process_fill"
    /\ ret # R(0)
    /\ Len(trade_log) = 3
    /\ DOMAIN before.open_positions = AcctSymbols

\* C18: after every process_fill, margin_used is the sum over the positions
\* that are then non-flat of the initial margin of the position's contract
\* times |net_qty|, and 0 when every position is flat.
C18_MarginIsSumOfRequirements ==
    op = "process_fill" =>
        margin_used =
            SumOver({s \in DOMAIN open_positions : open_positions[s].net_qty # 0},
                    [s \in DOMAIN open_positions |->
                        RMul(ContractOf[s].initial_margin,
                             R(Abs(open_positions[s].net_qty)))])

\* C19: update_equity sets equity to cash plus the unrealized P&L of exactly
\* the positions whose symbol has both a price and a contract in the maps
\* passed in, and changes nothing else.
C19_MarkToMarket ==
    op = "update_equity" =>
        LET prices == call[1]
            contracts == call[2]
            marked == {s \in DOMAIN open_positions :
                          s \in DOMAIN prices /\ s \in DOMAIN contracts}
        IN  /\ equity = RAdd(cash,
                  SumOver(marked, [s \in marked |->
                      unrealized_pnl(open_positions[s], prices[s],
                                     contracts[s])]))
            /\ cash = before.cash
            /\ open_positions = before.open_positions
            /\ margin_used = before.margin_used
            /\ trade_log = before.trade_log

\* two open positions away from the mark, one marked and one without contract
C19_Witness ==
    /\ op = "update_equity"
    /\ DOMAIN call[1] = AcctSymbols
    /\ DOMAIN call[2] = {"ES"}
    /\ \A s \in AcctSymbols :
          /\ s \in DOMAIN open_positions
          /\ open_positions[s].net_qty # 0
          /\ open_positions[s].avg_entry_price # call[1][s]
    /\ equity # cash

\* sum of the maintenance margin of the non-flat positions among S
MaintenanceOver(S) ==
    LET held == {s \in S : open_positions[s].net_qty # 0}
    IN  SumOver(held, [s \in held |->
            RMul(ContractOf[s].maintenance_margin,
                 R(Abs(open_positions[s].net_qty)))])

\* C20 as stated: is_margin_breach returns true exactly when equity is
\* strictly below the sum of the maintenance-margin requirements of all
\* non-flat positions.
C20_BreachOverAllPositions ==
    op = "is_margin_breach" =>
        (ret <=> RLt(equity, MaintenanceOver(DOMAIN open_positions)))

\* C20: is_margin_breach returns true exactly when equity is strictly below
\* the sum of the maintenance-margin requirements of the non-flat positions
\* whose symbol has a contract in the map passed in, false when equity is at
\* or above that sum, and with no such position true only if equity is
\* negative.
C20_BreachOverContractedPositions ==
    op = "is_margin_breach" =>
        LET contracted == DOMAIN open_positions \cap DOMAIN call[1]
        IN  /\ ret <=> RLt(equity, MaintenanceOver(contracted))
            /\ RLe(MaintenanceOver(contracted), equity) => ~ret
            /\ (\A s \in contracted : open_positions[s].net_qty = 0) =>
                  (ret <=> RLt(equity, R(0)))

\* equity exactly at the maintenance margin of the open contracted positions:
\* no breach
C20_Witness ==
    /\ op = "is_margin_breach"
    /\ ret = FALSE
    /\ \E s \in DOMAIN open_positions \cap DOMAIN call[1] :
          open_positions[s].net_qty # 0
    /\ equity = MaintenanceOver(DOMAIN open_positions \cap DOMAIN call[1])

\* ------------------------------------------------------------------------
\* Properties of a whole run (specification Spec)
\* ------------------------------------------------------------------------
\* the position in the run's contract, flat and new if nothing was filled
RunPosition == PositionOrNew(open_positions, ContractSymbol)

\* the P&L of a position marked at a price, written out for the ES contract
MarkedPnl(position, price) ==
    RMul(RMul(RDiv(RSub(price, position.avg_entry_price), ContractES.tick_size),
              ContractES.tick_value),
         R(position.net_qty))

\* commission and slippage charged over the fills of a log
FeesCharged(log) ==
    SumOver(DOMAIN log,
            [k \in DOMAIN log |->
                RMul(RAdd(CommissionPerContract, SlippagePerContract),
                     R(Abs(log[k].qty)))])

\* C21: at the end of a run on a fresh engine, final equity - initial balance
\* is the realized P&L of all applied fills plus the unrealized P&L at the
\* final close minus the commission and slippage charged over all fills,
\* exactly; the returned curve ends at that equity.
C21_Reconciliation ==
    pc = "done" =>
        /\ RSub(equity, R(InitialBalance))
              = RSub(RAdd(RunPosition.realized_pnl,
                          IF bars = <<>> THEN R(0)
                          ELSE MarkedPnl(RunPosition, LastBar.close)),
                     FeesCharged(trade_log))
        /\ equity_history # <<>> =>
              equity_history[Len(equity_history)][2] = equity

\* a finished run with realized P&L, an open position away from the final
\* close and fees on two fills
C21_Witness ==
    /\ pc = "done"
    /\ Len(trade_log) = 2
    /\ RunPosition.realized_pnl # R(0)
    /\ RunPosition.net_qty # 0
    /\ RunPosition.avg_entry_price # LastBar.close

\* C22: a run records one equity snapshot per bar, in bar order, the k-th
\* keyed by the timestamp of the k-th bar; when it is recorded its value is
\* cash plus the unrealized P&L at that bar's close, with every fill resolved
\* so far applied to the account.
C22_SnapshotPerBar ==
    /\ Len(equity_history) = i
    /\ \A k \in DOMAIN equity_history :
          equity_history[k][1] = bars[k].timestamp
    /\ pc = "done" => Len(equity_history) = Len(bars)
    /\ (pc \in {"push_bar", "on_bar", "post1"} /\ i >= 1) =>
          /\ equity_history[i][2]
                = RAdd(cash, MarkedPnl(RunPosition, bars[i].close))
          /\ [k \in DOMAIN trade_log |-> trade_log[k].id] = emitted

\* the snapshot of the second bar, just recorded, with a fill resolved on
\* that bar and the close away from the fill price
C22_Witness ==
    /\ pc = "push_bar"
    /\ i = 2
    /\ resolved # <<>>
    /\ resolved[Len(resolved)] = [bar |-> 1, phase |-> "resolve"]
    /\ trade_log[Len(trade_log)].fill_price # bars[2].close
    /\ equity_history[2][2] # cash

\* C23: after the loop of a non-empty run the pending orders are resolved
\* against the final bar's (close, high, low), before the end hook and again
\* after it: a market order pending at either resolution fills at the final
\* bar's close, a limit order is filled iff the final bar's high/low meet it.
C23_PostLoopAtClose ==
    /\ (op = "process_orders" /\ pc \in {"on_end", "done"}) =>
          /\ call = <<LastBar.close, LastBar.high, LastBar.low>>
          /\ \A o \in Range(before) :
                /\ o.order_type = "Market" =>
                      /\ Cardinality(FillsOf(o)) = 1
                      /\ \A k \in FillsOf(o) :
                            fills[k].fill_price = LastBar.close
                /\ PricedLimit(o) =>
                      (FillsOf(o) # {}) <=>
                          IF o.side = "Buy"
                          THEN RLe(LastBar.low, o.limit_price[1])
                          ELSE RLe(o.limit_price[1], LastBar.high)
    /\ \A k \in DOMAIN trade_log :
          (/\ resolved[k].phase \in {"post1", "post2"}
           /\ Sub(k).order.order_type = "Market") =>
              trade_log[k].fill_price = LastBar.close

\* a market order of the end hook, filled after it at a close that is not
\* the final bar's open, after the first post-loop resolution filled another
C23_Witness ==
    /\ pc = "done"
    /\ Len(trade_log) = 2
    /\ resolved[1].phase = "post1"
    /\ resolved[2].phase = "post2"
    /\ Sub(2).phase = "on_end"
    /\ Sub(2).order.order_type = "Market"
    /\ trade_log[2].fill_price = LastBar.close
    /\ LastBar.close # LastBar.open

\* C24: the last step of a non-empty run overwrites the value of the last
\* equity snapshot with the account's equity after the post-loop fills, those
\* of end-hook orders included, were applied and marked to the final close;
\* the snapshot's timestamp, the number of snapshots and every earlier
\* snapshot stay as they were.
C24_FinalOverwrite ==
    [][(pc = "post2" /\ bars # <<>>) =>
          /\ Len(equity_history') = Len(equity_history)
          /\ \A k \in 1..(Len(equity_history) - 1) :
                equity_history'[k] = equity_history[k]
          /\ equity_history'[Len(equity_history)][1]
                = equity_history[Len(equity_history)][1]
          /\ equity_history'[Len(equity_history)][2] = equity'
          /\ equity' = RAdd(cash', MarkedPnl(RunPosition', LastBar.close))
          /\ [k \in DOMAIN trade_log' |-> trade_log'[k].id] = emitted']_vars

\* a finished run of two bars or more whose last snapshot carries the equity
\* after the fill of an end-hook order
C24_Witness ==
    /\ pc = "done"
    /\ Len(equity_history) >= 2
    /\ resolved # <<>>
    /\ resolved[Len(resolved)].phase = "post2"
    /\ Sub(Len(trade_log)).phase = "on_end"
    /\ equity_history[Len(equity_history)][2] = equity
    /\ equity_history[Len(equity_history)][1] = LastBar.timestamp

\* C25: a run over no bars returns an empty equity curve, no trades and a
\* summary with zero trades, whatever the strategy submitted in its start and
\* end hooks: no order is ever resolved, the orders not cancelled by the
\* strategy are still pending when the run returns.
C25_EmptyRun ==
    bars = <<>> =>
        /\ emitted = <<>>
        /\ trade_log = <<>>
        /\ equity_history = <<>>
        /\ op # "process_orders"
        /\ pc = "done" =>
              /\ result # None
              /\ result[1].equity_curve = <<>>
              /\ result[1].trades = <<>>
              /\ result[1].num_trades = 0
              /\ \A id \in DOMAIN submitted :
                    submitted[id].cancelled \/ id \in PendingIds

\* a run over no bars has returned; an order of the start hook and one of the
\* end hook are still pending
C25_Witness ==
    /\ bars = <<>>
    /\ pc = "done"
    /\ result # None
    /\ Len(pending_orders) = 2
    /\ submitted[1].phase = "on_start"
    /\ submitted[2].phase = "on_end"

\* the steps of the loop from bar k on, for a run over n bars
RECURSIVE LoopSteps(_, _)
LoopSteps(k, n) ==
    IF k >= n THEN <<>>
    ELSE <<Step("push_bar", k), Step("on_bar", k)>>
         \o (IF k > 0 THEN <<Step("resolve", k)>> ELSE <<>>)
         \o <<Step("record", k)>>
         \o LoopSteps(k + 1, n)

\* the steps of a whole run over n bars
RunSteps(n) ==
    <<Step("on_start", 0)>>
    \o LoopSteps(0, n)
    \o (IF n > 0 THEN <<Step("post1", n)>> ELSE <<>>)
    \o <<Step("on_end", n)>>
    \o (IF n > 0 THEN <<Step("post2", n)>> ELSE <<>>)

IsPrefix(s, t) == Len(s) <= Len(t) /\ \A k \in DOMAIN s : s[k] = t[k]

\* C26: in one run the start hook runs once, before any bar is pushed; the
\* per-bar hook runs once per bar, in bar order, after the bar was pushed
\* into the history and before the bar's order resolution; the end hook runs
\* once, after the loop and the first post-loop resolution and before the
\* second.
C26_HookOrder ==
    /\ IsPrefix(trace, RunSteps(Len(bars)))
    /\ pc = "done" => trace = RunSteps(Len(bars))
    /\ pc = "on_start" => (trace = <<>> /\ bar_history = <<>>)
    /\ pc = "on_bar" =>
          /\ trace[Len(trace)] = Step("push_bar", i)
          /\ bar_history[Len(bar_history)] = CurBar
          /\ \A k \in DOMAIN resolved : resolved[k].bar < i
    /\ pc = "on_end" =>
          /\ i = Len(bars)
          /\ bars # <<>> => trace[Len(trace)] = Step("post1", i)

\* a finished run over three bars
C26_Witness ==
    /\ pc = "done"
    /\ Len(bars) = 3
    /\ Len(trace) = 15
    /\ Len(SelectSeq(trace, LAMBDA e : e.step = "on_bar")) = 3
    /\ Len(SelectSeq(trace, LAMBDA e : e.step \in {"on_start", "on_end"})) = 2

\* ------------------------------------------------------------------------
\* Specification ContextSpec: push_bar on a StrategyContext of any capacity
\* ------------------------------------------------------------------------
\* bars pushed per behaviour
MaxPushes == 5

\* max_history handed to StrategyContext::new
MaxHistories == {0, 1, 2}

\* StrategyContext::new(symbol, max_history, ..); bars holds the bars pushed
ContextInit ==
    /\ next_order_id = FirstId
    /\ next_fill_id = FirstId
    /\ pending_orders = <<>>
    /\ initial_balance = AccountNew.initial_balance
    /\ cash = AccountNew.cash
    /\ equity = AccountNew.equity
    /\ margin_used = AccountNew.margin_used
    /\ open_positions = AccountNew.open_positions
    /\ trade_log = AccountNew.trade_log
    /\ bar_history = <<>>
    /\ current_time \in NowValues
    /\ max_history \in MaxHistories
    /\ bars = <<>>
    /\ pc = "context"
    /\ i = 0
    /\ equity_history = <<>>
    /\ result = None
    /\ trace = <<>>
    /\ op = "new"
    /\ ret = 0
    /\ fills = <<>>
    /\ call = NoCall
    /\ before = <<>>
    /\ resolved = <<>>
    /\ submitted = <<>>
    /\ issued = <<>>
    /\ calls = 0
    /\ emitted = <<>>

\* context.push_bar(bar), the bars coming in timestamp order
ContextPushBar ==
    \E shape \in BarShapes :
        LET bar == MakeBar(shape, Len(bars))
        IN  /\ Len(bars) < MaxPushes
            /\ current_time' = bar.timestamp
            /\ bar_history' = push_bar(bar_history, max_history, bar)
            /\ bars' = Append(bars, bar)
            /\ op' = "push_bar"
            /\ call' = <<bar>>
            /\ before' = bar_history
            /\ UNCHANGED <<engine_vars, account_vars, max_history, pc, i,
                           equity_history, result, trace, ret, fills, resolved,
                           submitted, issued, calls, emitted>>

\* len.saturating_sub(n) on usize
saturating_sub(a, b) == IF a >= b THEN a - b ELSE 0

\* StrategyContext::get_bars: bar_history.range(start..) front to back
get_bars(history, n) ==
    LET len == Len(history)
        start == saturating_sub(len, n)
    IN  SubSeq(history, start + 1, len)

\* StrategyContext::get_close_prices
get_close_prices(history, n) ==
    LET got == get_bars(history, n)
    IN  [k \in DOMAIN got |-> got[k].close]

\* the n a strategy asks for
Lookbacks == {0, 1, 2, 3}

ContextQueryFrame ==
    UNCHANGED <<engine_vars, account_vars, context_vars, driver_vars, fills,
                before, resolved, submitted, issued, calls, emitted>>

\* context.get_bars(n)
GetBars ==
    \E n \in Lookbacks :
        /\ op' = "get_bars"
        /\ call' = <<n>>
        /\ ret' = get_bars(bar_history, n)
        /\ ContextQueryFrame

\* context.get_close_prices(n)
GetClosePrices ==
    \E n \in Lookbacks :
        /\ op' = "get_close_prices"
        /\ call' = <<n>>
        /\ ret' = get_close_prices(bar_history, n)
        /\ ContextQueryFrame

ContextNext ==
    \/ ContextPushBar
    \/ GetBars
    \/ GetClosePrices

ContextSpec == ContextInit /\ [][ContextNext]_vars

\* the last n elements of a sequence, all of it if it is shorter
LastN(seq, n) ==
    IF Len(seq) <= n THEN seq ELSE SubSeq(seq, Len(seq) - n + 1, Len(seq))

\* C27: after any sequence of push_bar calls the context holds at most
\* max_lookback bars, for every max_lookback >= 0: the most recently pushed
\* ones, in the order they were pushed.
C27_BoundedHistory ==
    /\ Len(bar_history) <= max_history
    /\ bar_history = LastN(bars, max_history)

\* ------------------------------------------------------------------------
\* data/bar.rs: the validating constructor (specification BarSpec)
\* ------------------------------------------------------------------------
BarOk(bar) == [ok |-> TRUE, bar |-> Some(bar), err |-> None]

BarErr(e) == [ok |-> FALSE, bar |-> None, err |-> Some(e)]

BarNew_OpenFirst(timestamp, open, high, low, close, volume) ==
    IF RLt(high, low) THEN BarErr("InvalidHighLow")
    ELSE IF RLt(open, low) \/ RLt(high, open) THEN BarErr("InvalidOpen")
    ELSE IF RLt(close, low) \/ RLt(high, close) THEN BarErr("InvalidClose")
    ELSE IF RLt(volume, R(0)) THEN BarErr("NegativeVolume")
    ELSE BarOk([timestamp |-> timestamp, open |-> open, high |-> high,
                low |-> low, close |-> close, volume |-> volume])

\* Bar::new
BarNew(timestamp, open, high, low, close, volume) ==
    IF RLt(high, low) THEN BarErr("InvalidHighLow")
    ELSE IF RLt(close, low) \/ RLt(high, close) THEN BarErr("InvalidClose")
    ELSE IF RLt(open, low) \/ RLt(high, open) THEN BarErr("InvalidOpen")
    ELSE IF RLt(volume, R(0)) THEN BarErr("NegativeVolume")
    ELSE BarOk([timestamp |-> timestamp, open |-> open, high |-> high,
                low |-> low, close |-> close, volume |-> volume])

BarValues == {R(1), R(2), R(3)}

BarVolumes == {R(-1), R(0), R(5)}

BarInit ==
    /\ InitCommon
    /\ bars = <<>>
    /\ pc = "bar"
    /\ current_time = 0

\* Bar::new(timestamp, open, high, low, close, volume, ..) on any values
ValidateBar ==
    \E o \in BarValues, h \in BarValues, l \in BarValues, c \in BarValues,
       v \in BarVolumes :
        /\ ret' = BarNew(0, o, h, l, c, v)
        /\ op' = "Bar::new"
        /\ call' = [open |-> o, high |-> h, low |-> l, close |-> c,
                    volume |-> v]
        /\ UNCHANGED <<engine_vars, account_vars, context_vars, driver_vars,
                       fills, before, resolved, submitted, issued, calls,
                       emitted>>

BarNext == ValidateBar

BarSpec == BarInit /\ [][BarNext]_vars

MaxClockBars == 1

\* readings of Utc::now() when the context is created, later than any bar
ClockValues == {1000, 2000}

ClockInit ==
    /\ InitCommon
    /\ \E shapes \in UNION {[1..n -> BarShapes] : n \in 0..MaxClockBars} :
          bars = [k \in 1..Len(shapes) |-> MakeBar(shapes[k], k - 1)]
    /\ current_time \in ClockValues
    /\ pc = "on_start"

ClockSpec == ClockInit /\ [][Next]_vars

\* C29: the equity history and the trade log of a run are fixed by the bars,
\* the configuration, the contract and the strategy's calls: every timestamp
\* in them is a timestamp of the bars, also that of the fill of an order
\* submitted in the start hook, so two runs on the same inputs return the
\* same histories and logs.
C29_Deterministic ==
    LET BarTimes == {bars[k].timestamp : k \in DOMAIN bars}
    IN  /\ \A k \in DOMAIN equity_history : equity_history[k][1] \in BarTimes
        /\ \A k \in DOMAIN trade_log : trade_log[k].timestamp \in BarTimes

\* C30: at every point of a run the trade log holds the fills the matching
\* engine has emitted so far, each once and in the order of emission, with
\* strictly increasing fill ids; a step of the run leaves the entries already
\* in the log as they are and appends exactly the fills that step emitted.
C30_AuthoritativeLog ==
    /\ [](/\ [k \in DOMAIN trade_log |-> trade_log[k].id] = emitted
          /\ \A k \in DOMAIN trade_log : \A m \in DOMAIN trade_log :
                k < m => trade_log[k].id < trade_log[m].id)
    /\ [][/\ IsPrefix(trade_log, trade_log')
          /\ Len(trade_log') > Len(trade_log) =>
                trade_log' = trade_log \o fills']_vars

\* one resolution emitted two fills; the log holds both, in the order of
\* emission
C30_Witness ==
    /\ Len(fills) = 2
    /\ trade_log = fills
    /\ [k \in DOMAIN trade_log |-> trade_log[k].id] = <<1, 2>>
    /\ emitted = <<1, 2>>

\* C31: every fill in the account's trade log carries in its fees field the
\* total fees the account charged for it,
\* (commission_per_contract + slippage_per_contract) * |qty|.
C31_LoggedFees ==
    \A k \in DOMAIN trade_log : trade_log[k].fees = total_cost(trade_log[k])

\* ------------------------------------------------------------------------
\* Specification QtySpec: Order::signed_qty over the whole u32 range
\* ------------------------------------------------------------------------
\* a u32 written as its top bit and its low 31 bits: value = top * 2^31 + low
U32(top, low) == [top |-> top, low |-> low]

\* i32::MIN
I32Min == (-2147483647) - 1

\* `qty as i32`: the same 32 bits read as two's complement
as_i32(q) ==
    IF q.top = 0 THEN q.low ELSE (q.low - 1073741824) - 1073741824

\* `x * sign` on i32 with sign in {1, -1}: the results a build can give.
\* i32::MIN * -1 overflows: a build with overflow checks panics (None), one
\* without wraps to i32::MIN.
mul_sign_i32(x, sign) ==
    IF sign = 1 THEN {Some(x)}
    ELSE IF x = I32Min THEN {None, Some(I32Min)}
    ELSE {Some(-x)}

\* Order::signed_qty on an order with the u32 quantity q
signed_qty_u32(q, side) == mul_sign_i32(as_i32(q), to_qty_sign(side))

\* low 31 bits of the quantities tried: the smallest and the largest ones
LowBits == (0..12) \cup {2147483647 - k : k \in 0..12}

QtyInit ==
    /\ InitCommon
    /\ bars = <<>>
    /\ pc = "qty"
    /\ current_time = 0

\* order.signed_qty() for an order of any quantity and side; ret is None when
\* the call panicked
SignedQty ==
    \E top \in {0, 1}, low \in LowBits, side \in Sides :
        \E r \in signed_qty_u32(U32(top, low), side) :
            /\ ret' = r
            /\ op' = "signed_qty"
            /\ call' = [qty |-> U32(top, low), side |-> side]
            /\ UNCHANGED <<engine_vars, account_vars, context_vars,
                           driver_vars, fills, before, resolved, submitted,
                           issued, calls, emitted>>

QtyNext == SignedQty

QtySpec == QtyInit /\ [][QtyNext]_vars

\* C32: for every u32 quantity, signed_qty returns quantity * (+1 for Buy,
\* -1 for Sell): it returns a value, the value of a Buy of a quantity above 0
\* is above 0 and that of a Sell is at most 0, and its magnitude is the
\* quantity, also for quantities of 2^31 and above.
C32_SignedQty ==
    op = "signed_qty" =>
        /\ ret # None
        /\ call.side = "Buy" /\ call.qty # U32(0, 0) => ret[1] > 0
        /\ call.side = "Sell" => ret[1] <= 0
        /\ IF call.qty.top = 0
           THEN ret[1] = call.qty.low * to_qty_sign(call.side)
           ELSE call.side = "Sell" /\ call.qty.low = 0 /\ ret[1] = I32Min

\* C33: across any sequence of submit_order, market_order and limit_order
\* calls the ids of the accepted orders are strictly increasing in the order
\* of acceptance, so the pending orders, which are kept in that order, have
\* strictly increasing ids and no two of them share an id.
C33_PendingIdsIncrease ==
    \A k \in DOMAIN pending_orders : \A m \in DOMAIN pending_orders :
        k < m => pending_orders[k].id < pending_orders[m].id

\* a pending limit order of the end hook that the bar's range does not reach
EndHookMiss(o, bar) ==
    /\ submitted[o.id].phase = "on_end"
    /\ o.order_type = "Limit"
    /\ ~LimitFilled(o.side, o.limit_price[1], bar.high, bar.low)

\* the account after the final resolution of the given pending orders
FinalAccount(orders) ==
    update_equity(
        ApplyFills(Acct,
                   process_orders(orders, next_fill_id, LastBar.close,
                                  LastBar.high, LastBar.low).fills,
                   ContractES),
        ClosePrices(LastBar), Contracts)

\* C34: a limit order submitted in the end hook that the final bar's high/low
\* does not reach gets no fill in the final resolution, which is the last
\* one: the run completes with a result, the order is not in the trade log,
\* and the log, the position, the cash and the equity are what they would be
\* had the order never been submitted.
C34_EndHookMissDropped ==
    [][(pc = "post2" /\ bars # <<>>) =>
          \A o \in Range(pending_orders) :
              EndHookMiss(o, LastBar) =>
                 LET others == SelectSeq(pending_orders,
                                         LAMBDA x : x.id # o.id)
                     acct == FinalAccount(others)
                 IN  /\ pc' = "done"
                     /\ result' # None
                     /\ \A k \in DOMAIN fills' : fills'[k].order_id # o.id
                     /\ o.id \notin {trade_log'[k].order_id :
                                        k \in DOMAIN trade_log'}
                     /\ trade_log' = acct.trade_log
                     /\ open_positions' = acct.open_positions
                     /\ cash' = acct.cash
                     /\ equity' = acct.equity]_vars

\* the run is over: a limit order of the end hook is still pending, unfilled,
\* beside a market order of the end hook that the final resolution filled
C34_Witness ==
    /\ pc = "done"
    /\ Len(fills) = 1
    /\ submitted[fills[1].order_id].phase = "on_end"
    /\ \E o \in Range(pending_orders) :
          /\ EndHookMiss(o, LastBar)
          /\ o.id \notin LoggedIds

\* a sequence back to front
Reverse(seq) == [k \in DOMAIN seq |-> seq[Len(seq) + 1 - k]]

\* C35: get_bars(n) returns the last min(n, bar_count) bars of the history
\* with the most recent bar first, and get_close_prices(n) the closes of
\* those bars in that same order.
C35_MostRecentFirst ==
    /\ op = "get_bars" =>
          ret = Reverse(LastN(bar_history, call[1]))
    /\ op = "get_close_prices" =>
          ret = [k \in 1..Len(LastN(bar_history, call[1])) |->
                    Reverse(LastN(bar_history, call[1]))[k].close]

C37_OneFillPerOrder ==
    /\ [](/\ \A k \in DOMAIN trade_log : \A m \in DOMAIN trade_log :
                k # m => trade_log[k].order_id # trade_log[m].order_id
          /\ \A k \in DOMAIN trade_log :
                /\ trade_log[k].order_id \in DOMAIN submitted
                /\ trade_log[k].side = Sub(k).order.side
                /\ trade_log[k].qty = signed_qty(Sub(k).order)
                /\ trade_log[k].symbol = Sub(k).order.symbol
          /\ \A id \in DOMAIN submitted :
                submitted[id].cancelled => id \notin LoggedIds)
    /\ [][\A k \in (Len(trade_log) + 1)..Len(trade_log') :
             /\ trade_log'[k].order_id \in DOMAIN submitted
             /\ ~submitted[trade_log'[k].order_id].cancelled
             /\ trade_log'[k].order_id \notin LoggedIds]_vars

\* the run is over: a market order was cancelled while pending and the
\* resolutions after the cancellation gave it no fill
C37_Witness ==
    /\ pc = "done"
    /\ bars # <<>>
    /\ \E id \in DOMAIN submitted :
          /\ submitted[id].cancelled
          /\ submitted[id].order.order_type = "Market"
          /\ submitted[id].phase = "on_start"
          /\ id \notin LoggedIds

\* C38: every fill appended to the trade log carries the submission timestamp
\* of its order: for an order submitted in the per-bar hook of bar b the
\* timestamp of bar b, for one submitted in the end hook that of the last
\* bar; when a loop iteration fills an order of an earlier bar, the fill's
\* timestamp is that earlier bar's and not the filling bar's.
C38_SubmissionTimestamp ==
    [][\A k \in (Len(trade_log) + 1)..Len(trade_log') :
          LET s == submitted[trade_log'[k].order_id]
              t == trade_log'[k].timestamp
          IN  /\ t = s.order.timestamp
              /\ s.phase = "on_bar" => t = bars[s.bar + 1].timestamp
              /\ s.phase = "on_end" => t = LastBar.timestamp
              /\ (pc = "resolve" /\ s.phase = "on_bar" /\ s.bar < i) =>
                    (t # CurBar.timestamp /\ t < CurBar.timestamp)]_vars

\* a limit order submitted in the hook of bar 0 was filled in the iteration
\* of bar 2 and is logged with bar 0's timestamp
C38_Witness ==
    \E k \in DOMAIN trade_log :
        /\ Sub(k).phase = "on_bar"
        /\ Sub(k).bar = 0
        /\ Sub(k).order.order_type = "Limit"
        /\ resolved[k] = [bar |-> 2, phase |-> "resolve"]
        /\ trade_log[k].timestamp = bars[1].timestamp
        /\ trade_log[k].timestamp # bars[3].timestamp

\* C39: process_fill leaves equity and initial_balance as they were;
\* update_equity leaves initial_balance, cash, margin_used, the positions and
\* the trade log as they were; and no call other than update_equity changes
\* equity, so between two marks equity keeps its last marked value.
C39_LedgerFrames ==
    /\ [](/\ op = "process_fill" =>
                /\ equity = before.equity
                /\ initial_balance = before.initial_balance
          /\ op = "update_equity" =>
                /\ initial_balance = before.initial_balance
                /\ cash = before.cash
                /\ margin_used = before.margin_used
                /\ open_positions = before.open_positions
                /\ trade_log = before.trade_log)
    /\ [][/\ op' # "update_equity" => equity' = equity
          /\ initial_balance' = initial_balance]_vars

\* a second fill has moved cash and the position while equity still holds
\* the value of the mark made between the two fills
C39_Witness ==
    /\ op = "process_fill"
    /\ Len(trade_log) = 2
    /\ cash # before.cash
    /\ open_positions # before.open_positions
    /\ equity = before.equity
    /\ equity # initial_balance
    /\ equity # cash

\* ------------------------------------------------------------------------
\* Specification CloseSpec: BacktestEngine::run with a strategy that submits
\* market orders only and whose on_end is that of the built-in strategies
\* (strategy/sma_crossover.rs, strategy/rsi_reversion.rs)
\* ------------------------------------------------------------------------
\* bars per run
MaxCloseBars == 2

\* the market orders of the start and per-bar hooks: (quantity, side); the
\* quantity is a u32 the strategy is built with, 0 included
CloseMarkets == {<<0, "Buy">>, <<1, "Buy">>, <<2, "Sell">>}

CloseInit ==
    /\ InitCommon
    /\ \E shapes \in UNION {[1..n -> BarShapes] : n \in 0..MaxCloseBars} :
          bars = [k \in 1..Len(shapes) |-> MakeBar(shapes[k], k - 1)]
    /\ current_time \in NowValues
    /\ pc = "on_start"

\* context.market_order called inside on_start or on_bar
CloseMarketOrder ==
    \E m \in CloseMarkets :
        /\ pc \in {"on_start", "on_bar"}
        /\ StratCall
        /\ EngineMarketOrder(current_time, ContractSymbol, m[1], m[2])
        /\ submitted' = Append(submitted, Submission(
                OrderMarket(next_order_id, current_time, ContractSymbol,
                            m[1], m[2])))

\* on_end of the built-in strategies: if the context has a position and it
\* is not flat, a market order for |net_qty| on the opposite side
OnEndClose ==
    /\ pc = "on_end"
    /\ IF /\ ContractSymbol \in DOMAIN open_positions
          /\ ~is_flat(open_positions[ContractSymbol])
       THEN LET net == open_positions[ContractSymbol].net_qty
                side == IF net > 0 THEN "Sell" ELSE "Buy"
            IN  /\ EngineMarketOrder(current_time, ContractSymbol,
                                     Abs(net), side)
                /\ submitted' = Append(submitted, Submission(
                        OrderMarket(next_order_id, current_time,
                                    ContractSymbol, Abs(net), side)))
                /\ UNCHANGED <<resolved, calls>>
       ELSE UNCHANGED <<engine_vars, obs_vars>>
    /\ pc' = "post2"
    /\ trace' = Append(trace, Step("on_end", i))
    /\ UNCHANGED <<i, bars, context_vars, result, account_vars,
                   equity_history>>

CloseNext ==
    \/ CloseMarketOrder
    \/ OnStartReturn
    \/ PushBar
    \/ OnBarReturn
    \/ ResolveOrders
    \/ RecordEquity
    \/ PostLoopResolve
    \/ OnEndClose
    \/ FinalResolve

CloseSpec == CloseInit /\ [][CloseNext]_vars

\* C40: a run over at least one bar whose strategy submits market orders only
\* and whose end hook closes the residual position ends with no pending
\* order, a flat position with average entry price 0, no margin used and a
\* last equity snapshot equal to the cash.
C40_EndsFlat ==
    (pc = "done" /\ bars # <<>>) =>
        /\ pending_orders = <<>>
        /\ RunPosition.net_qty = 0
        /\ RunPosition.avg_entry_price = R(0)
        /\ margin_used = R(0)
        /\ equity_history[Len(equity_history)][2] = cash
        /\ equity = cash

====
